---- MODULE Spec2Model ----
(***************************************************************************)
(* Model of dashboard.py: the Streamlit funding dashboard.                 *)
(*                                                                         *)
(* The script is re-executed top to bottom for every session and every     *)
(* widget interaction; load_data is memoised process-wide by               *)
(* st.cache_data.  A pass is modelled step by step (pc), every step being  *)
(* a group of consecutive source lines that may raise.                     *)
(*                                                                         *)
(* Text is a sequence of one-character strings, so that Python's           *)
(* "sub in text" is a real substring search.  An optional value is a       *)
(* sequence of length 0 (Python's None) or 1.  pandas' missing amount NaN  *)
(* is the integer NaN, which no amount of a file equals.                   *)
(***************************************************************************)
EXTENDS Integers, Sequences, FiniteSets, TLC

VARIABLES
    file,                \* the CSV on disk: [cols, rows]
    cache,               \* st.cache_data entry of load_data(): None or a frame
    pc,                  \* per session: position of the script pass
    raised,              \* per session: the statement whose exception ended the pass
    df,                  \* per session: module global df (line 59)
    selected_company,    \* per session: line 72
    logo,                \* per session: line 79
    company_data,        \* per session: line 92
    summary,             \* per session: lines 98-133
    funding_types,       \* per session: line 138 (pie chart data)
    funding_by_category, \* per session: line 172 (pivot table)
    fig,                 \* per session: bar traces, lines 192-202
    details_df,          \* per session: lines 228-233
    funding_type,        \* argument of a direct categorize_funding call
    equity_only,         \* argument of a direct categorize_funding call
    category             \* result of that call, None before it

vars == <<file, cache, pc, raised, df, selected_company, logo, company_data,
          summary, funding_types, funding_by_category, fig, details_df,
          funding_type, equity_only, category>>

passVars == <<selected_company, logo, company_data, summary, funding_types,
              funding_by_category, fig, details_df>>

callVars == <<funding_type, equity_only, category>>

None == <<>>
Some(v) == <<v>>
NaN == -1
NoException == [exc |-> "none", line |-> 0]
NotCalled == "not called"

-----------------------------------------------------------------------------
(* Bounds *)

MaxRows == 2        \* rows of a generated CSV
MaxFragments == 2   \* fragments concatenated into a funding type text
NumSessions == 2    \* browser sessions of the multi-session specification

-----------------------------------------------------------------------------
(* Text *)

StrGrant == <<"G", "r", "a", "n", "t">>
StrDebt == <<"D", "e", "b", "t">>
StrSeries == <<"S", "e", "r", "i", "e", "s">>
StrVenture == <<"V", "e", "n", "t", "u", "r", "e">>
StrEquity == <<"E", "q", "u", "i", "t", "y">>
StrDebtFinancing == StrDebt \o <<" ", "F", "i", "n", "a", "n", "c", "i", "n", "g">>
StrSeriesA == StrSeries \o <<" ", "A">>
StrAngel == <<"A", "n", "g", "e", "l">>
StrDebtEquityRound == StrDebt \o <<" ">> \o StrEquity \o <<" ", "R", "o", "u", "n", "d">>
StrDebtGrant == StrDebt \o <<" ">> \o StrGrant
StrPostIPODebt == <<"P", "o", "s", "t", "-", "I", "P", "O", " ">> \o StrDebt

\* Python's  sub in text
Contains(text, sub) ==
    \E i \in 1..(Len(text) - Len(sub) + 1) :
        SubSeq(text, i, i + Len(sub) - 1) = sub

-----------------------------------------------------------------------------
(* categorize_funding, lines 17-25 *)

categorize_funding_equity_first(ft, eo) ==
    IF ft = StrGrant THEN "Grant"
    ELSE IF eo = "Yes" \/ Contains(ft, StrSeries) \/ Contains(ft, StrVenture)
            \/ Contains(ft, StrEquity) THEN "Equity"
    ELSE IF ft = StrDebtFinancing \/ Contains(ft, StrDebt) THEN "Debt"
    ELSE "Other"

categorize_funding(ft, eo) ==
    IF ft = StrGrant THEN "Grant"
    ELSE IF ft = StrDebtFinancing \/ Contains(ft, StrDebt) THEN "Debt"
    ELSE IF eo = "Yes" \/ Contains(ft, StrSeries) \/ Contains(ft, StrVenture)
            \/ Contains(ft, StrEquity) THEN "Equity"
    ELSE "Other"

-----------------------------------------------------------------------------
(* The CSV file and the frames read from it *)

ColOrg == "Organization Name"
ColDate == "Announced Date"
ColType == "Funding Type"
ColEquityOnly == "Equity Only Funding"
ColMoney == "Money Raised (in USD)"
ColLead == "Lead Investors"
ColCategory == "Funding Category"

RequiredColumns == {ColOrg, ColDate, ColType, ColEquityOnly, ColMoney, ColLead}

Orgs == {"Acme", "Beta"}
Dates == 1..2
Amounts == {NaN, 1, 3}

\* a date cell of the CSV is text; pd.to_datetime turns it into a timestamp
DateText(d) == [text |-> d, wellformed |-> TRUE]
BadDate == [text |-> 0, wellformed |-> FALSE]

RowKinds ==
    { [ft |-> StrGrant, eo |-> "No"],
      [ft |-> StrDebtFinancing, eo |-> "No"],
      [ft |-> StrSeriesA, eo |-> "No"],
      [ft |-> StrAngel, eo |-> "No"] }

CsvRow(o, d, k, a) ==
    [org |-> o, date |-> d, ft |-> k.ft, eo |-> k.eo, amount |-> a,
     lead |-> "investor"]

\* rows of a well-formed file
GoodRows ==
    { CsvRow(o, DateText(d), k, a) : o \in Orgs, d \in Dates, k \in RowKinds, a \in Amounts }

\* rows of a file whose columns or dates may be broken
PlainRows ==
    { CsvRow(o, d, [ft |-> StrSeriesA, eo |-> "No"], 1) :
        o \in Orgs, d \in { DateText(x) : x \in Dates } \cup {BadDate} }

SeqsUpTo(S, n) == UNION { [1..k -> S] : k \in 0..n }

\* the two company names are interchangeable, so the first row is Acme's
GoodFiles ==
    { [cols |-> RequiredColumns, rows |-> r] :
        r \in { q \in SeqsUpTo(GoodRows, MaxRows) : q # <<>> => q[1].org = "Acme" } }

BrokenFiles ==
    { [cols |-> c, rows |-> r] :
        c \in {RequiredColumns} \cup { RequiredColumns \ {x} : x \in RequiredColumns },
        r \in SeqsUpTo(PlainRows, MaxRows) }

\* the files of the multi-session specification, where the file is also rewritten
SharedFiles ==
    { [cols |-> RequiredColumns, rows |-> r] :
        r \in { <<CsvRow("Acme", DateText(1), [ft |-> StrSeriesA, eo |-> "No"], 1)>>,
                <<CsvRow("Acme", DateText(1), [ft |-> StrDebtFinancing, eo |-> "No"], 3)>>,
                <<CsvRow("Beta", DateText(2), [ft |-> StrGrant, eo |-> "No"], 1),
                  CsvRow("Acme", DateText(1), [ft |-> StrSeriesA, eo |-> "No"], 3)>> } }

-----------------------------------------------------------------------------
(* load_data, lines 28-44 *)

Raise(exc, line) == [ok |-> FALSE, exc |-> exc, line |-> line]
Return(v) == [ok |-> TRUE, value |-> v]

\* line 30: every row gets its index label, the position in the file
read_csv(f) ==
    [cols |-> f.cols,
     rows |-> [i \in 1..Len(f.rows) |->
                 [idx |-> i, org |-> f.rows[i].org, date |-> f.rows[i].date,
                  ft |-> f.rows[i].ft, eo |-> f.rows[i].eo,
                  amount |-> f.rows[i].amount, lead |-> f.rows[i].lead]]]

Parseable(cell) == cell.wellformed

\* line 33
to_datetime(rows) == [i \in 1..Len(rows) |-> [rows[i] EXCEPT !.date = rows[i].date.text]]

Orders(n) == { p \in [1..n -> 1..n] : \A i, j \in 1..n : i # j => p[i] # p[j] }

IsSortedByDate(rows) == \A i, j \in 1..Len(rows) : i < j => rows[i].date <= rows[j].date

sort_values_descending(rows) ==
    { s \in { [i \in 1..Len(rows) |-> rows[p[i]]] : p \in Orders(Len(rows)) } :
        \A i, j \in 1..Len(s) : i < j => s[i].date >= s[j].date }

\* line 36: sort_values with the default kind="quicksort", which is not a stable
\* sort: the order of rows with equal dates is whatever the sort produces
sort_values(rows) ==
    { s \in { [i \in 1..Len(rows) |-> rows[p[i]]] : p \in Orders(Len(rows)) } :
        IsSortedByDate(s) }

\* lines 39-42
WithCategory(rows) ==
    [i \in 1..Len(rows) |->
        [idx |-> rows[i].idx, org |-> rows[i].org, date |-> rows[i].date,
         ft |-> rows[i].ft, eo |-> rows[i].eo, amount |-> rows[i].amount,
         lead |-> rows[i].lead,
         category |-> categorize_funding(rows[i].ft, rows[i].eo)]]

\* the same body, had the dates been parsed with errors="coerce" and the
\* unparseable rows dropped
load_data_coercing(f) ==
    IF ColDate \notin f.cols THEN { Raise("KeyError", 33) }
    ELSE LET Good(r) == Parseable(r.date)
             kept == SelectSeq(read_csv(f).rows, Good)
         IN  IF kept = <<>>
             THEN { Raise("ValueError", 39) }
             ELSE IF ColType \notin f.cols \/ ColEquityOnly \notin f.cols
             THEN { Raise("KeyError", 40) }
             ELSE { Return([cols |-> f.cols \cup {ColCategory}, rows |-> WithCategory(s)]) :
                      s \in sort_values(to_datetime(kept)) }

\* The outcomes of one execution of the body of load_data on file f.
\* On a frame without rows DataFrame.apply(axis=1) returns a frame, not a
\* series, and assigning a frame of several columns to the one new column
\* raises ValueError.
load_data(f) ==
    IF ColDate \notin f.cols THEN { Raise("KeyError", 33) }
    ELSE IF \E i \in 1..Len(f.rows) : ~Parseable(f.rows[i].date)
        THEN { Raise("DateParseError", 33) }
    ELSE IF f.rows = <<>>
        THEN { Raise("ValueError", 39) }
    ELSE IF ColType \notin f.cols \/ ColEquityOnly \notin f.cols
        THEN { Raise("KeyError", 40) }
    ELSE { Return([cols |-> f.cols \cup {ColCategory}, rows |-> WithCategory(s)]) :
             s \in sort_values(to_datetime(read_csv(f).rows)) }

-----------------------------------------------------------------------------
(* st.cache_data, line 28 *)

\* the same call, had the cache entry been keyed by the state of the file
cached_load_data_rereading(c, f) ==
    { [out |-> o, cache |-> IF o.ok THEN Some(o.value) ELSE None] : o \in load_data(f) }

\* load_data takes no argument, so the entry is keyed by the function alone: a
\* hit returns (a copy of) the stored frame whatever the file holds by now; a
\* miss runs the body and stores what it returns; an exception stores nothing.
cached_load_data(c, f) ==
    IF c # None
    THEN { [out |-> Return(c[1]), cache |-> c] }
    ELSE { [out |-> o, cache |-> IF o.ok THEN Some(o.value) ELSE None] :
             o \in load_data(f) }

-----------------------------------------------------------------------------
(* Sidebar, lines 46-56 and 69-92 *)

\* line 69 (the order of the options does not matter to the choice)
companies(frame) == { frame.rows[i].org : i \in 1..Len(frame.rows) }

\* lines 72-76: the widget returns one of the options, None when there is none
selectbox(options) ==
    IF options = {} THEN { None } ELSE { Some(c) : c \in options }

\* the companies whose normalised file name exists under logos/
LogoFiles == { "Acme" }

\* lines 47-56
load_company_logo(company_name) ==
    IF company_name = None THEN Raise("AttributeError", 49)
    ELSE IF company_name[1] \in LogoFiles THEN Return(Some("image"))
    ELSE Return(None)

\* line 92: boolean indexing builds a new frame, rows in the order of df
SelectRows(frame, company) ==
    LET Match(r) == company # None /\ r.org = company[1]
    IN  [cols |-> frame.cols, rows |-> SelectSeq(frame.rows, Match)]

-----------------------------------------------------------------------------
(* Summary statistics and ratios, lines 98-133 *)

StrNA == <<"N", "/", "A">>
NotAvailable == [fmt |-> "N/A", v |-> 0]
Formatted(f, x) == [fmt |-> f, v |-> x]

\* Series.sum(): missing values are skipped, the sum of nothing is 0
SumMoney(rows) ==
    LET F[i \in 0..Len(rows)] ==
            IF i = 0 THEN 0
            ELSE IF rows[i].amount = NaN THEN F[i - 1]
            ELSE F[i - 1] + rows[i].amount
    IN  F[Len(rows)]

RowsOfCategory(rows, c) ==
    LET Match(r) == r.category = c
    IN  SelectSeq(rows, Match)

GroupBySumDoubleCounting(rows) ==
    LET present == { rows[i].category : i \in 1..Len(rows) }
    IN  [index |-> present,
         values |-> [c \in present |->
                       SumMoney(RowsOfCategory(rows, c))
                       + (IF c = "Equity" THEN SumMoney(RowsOfCategory(rows, "Other"))
                          ELSE 0)]]

\* line 104: groupby('Funding Category')[...].sum(), one entry per category
\* present among the rows
GroupBySum(rows) ==
    LET present == { rows[i].category : i \in 1..Len(rows) }
    IN  [index |-> present,
         values |-> [c \in present |-> SumMoney(RowsOfCategory(rows, c))]]

\* Series.get(key, default), lines 107-109
Get(series, key, default) ==
    IF key \in series.index THEN series.values[key] ELSE default

\* n / d rounded to the nearest integer, ties to even: what Python's
\* fixed-point formatting does with the quotient
RoundHalfEven(n, d) ==
    LET q == n \div d
        r == n % d
    IN  IF 2 * r < d THEN q
        ELSE IF 2 * r > d THEN q + 1
        ELSE IF q % 2 = 0 THEN q ELSE q + 1

debt_to_equity_zero_fallback(debt_funding, equity_funding) ==
    IF equity_funding > 0
    THEN Formatted(".2f", RoundHalfEven(100 * debt_funding, equity_funding))
    ELSE Formatted(".2f", 0)

\* lines 112-114: the text of the ratio with two decimals, v in hundredths
debt_to_equity(debt_funding, equity_funding) ==
    IF equity_funding > 0
    THEN Formatted(".2f", RoundHalfEven(100 * debt_funding, equity_funding))
    ELSE NotAvailable

\* lines 117-119: the integer 0, or the text of the percentage, v in tenths
debt_to_total(debt_funding, total_raised) ==
    IF total_raised > 0
    THEN Formatted(".1f%", RoundHalfEven(1000 * debt_funding, total_raised))
    ELSE Formatted("int", 0)

\* line 133
equity_percentage(equity_funding, total_raised) ==
    IF total_raised > 0
    THEN Formatted(".1f%", RoundHalfEven(1000 * equity_funding, total_raised))
    ELSE Formatted("0%", 0)

latest_row_first(rows) == rows[1]

\* lines 100-101: iloc[-1]
latest_row(rows) == rows[Len(rows)]

\* lines 98-133
Summarize(rows) ==
    LET total_raised == SumMoney(rows)
        series == GroupBySum(rows)
        equity_funding == Get(series, "Equity", 0)
        debt_funding == Get(series, "Debt", 0)
        grant_funding == Get(series, "Grant", 0)
    IN  [total_raised |-> total_raised,
         num_rounds |-> Len(rows),
         latest_round |-> IF rows # <<>> THEN latest_row(rows).ft ELSE StrNA,
         latest_date |-> IF rows # <<>>
                         THEN Formatted("%B %d, %Y", latest_row(rows).date)
                         ELSE NotAvailable,
         equity_funding |-> equity_funding,
         debt_funding |-> debt_funding,
         grant_funding |-> grant_funding,
         debt_to_equity |-> debt_to_equity(debt_funding, equity_funding),
         debt_to_total |-> debt_to_total(debt_funding, total_raised),
         equity_percentage |-> equity_percentage(equity_funding, total_raised)]

-----------------------------------------------------------------------------
(* Charts, lines 137-224 *)

fill_value == 0

RowsOn(rows, d, c) ==
    LET Match(r) == r.date = d /\ r.category = c
    IN  SelectSeq(rows, Match)

pivot_table_first_only(rows) ==
    LET index == { rows[i].date : i \in 1..Len(rows) }
        columns == { rows[i].category : i \in 1..Len(rows) }
    IN  [index |-> index, columns |-> columns,
         values |-> [d \in index |-> [c \in columns |->
                       IF RowsOn(rows, d, c) = <<>> THEN fill_value
                       ELSE SumMoney(<<RowsOn(rows, d, c)[1]>>)]]]

\* lines 172-179: one row per date and one column per category occurring among
\* the rows, each cell the sum of the amounts of that date and category, and
\* fill_value where there is no such row
pivot_table(rows) ==
    LET index == { rows[i].date : i \in 1..Len(rows) }
        columns == { rows[i].category : i \in 1..Len(rows) }
    IN  [index |-> index, columns |-> columns,
         values |-> [d \in index |-> [c \in columns |->
                       IF RowsOn(rows, d, c) = <<>> THEN fill_value
                       ELSE SumMoney(RowsOn(rows, d, c))]]]

\* lines 192-202: one bar trace per category among Equity, Debt, Grant that is
\* a column of the pivot table
bar_traces(pivot) ==
    LET IsColumn(c) == c \in pivot.columns
        names == SelectSeq(<<"Equity", "Debt", "Grant">>, IsColumn)
    IN  [k \in 1..Len(names) |->
            [name |-> names[k], x |-> pivot.index,
             y |-> [d \in pivot.index |-> pivot.values[d][names[k]]]]]

-----------------------------------------------------------------------------
(* Details table, lines 227-235 *)

ColAmount == "Amount (USD)"

\* lines 228-233: a projection of company_data, a frame of its own, whose date
\* and amount columns are replaced by their formatted text
format_details(rows) ==
    [i \in 1..Len(rows) |->
        [idx |-> rows[i].idx,
         date |-> Formatted("%Y-%m-%d", rows[i].date),
         ft |-> rows[i].ft,
         amount |-> Formatted("$,.0f", rows[i].amount),
         lead |-> rows[i].lead]]

-----------------------------------------------------------------------------
(* The script pass of a session *)

Sessions == 1..NumSessions

Goto(s, label) == pc' = [pc EXCEPT ![s] = label]

Fail(s, outcome) ==
    /\ pc' = [pc EXCEPT ![s] = "raised"]
    /\ raised' = [raised EXCEPT ![s] = [exc |-> outcome.exc, line |-> outcome.line]]

\* a browser session connects and the script starts
OpenSession(s) ==
    /\ pc[s] = "closed"
    /\ Goto(s, "load")
    /\ UNCHANGED <<file, cache, raised, df, passVars, callVars>>

\* line 59
LoadData(s) ==
    /\ pc[s] = "load"
    /\ \E r \in cached_load_data(cache, file) :
        /\ cache' = r.cache
        /\ IF r.out.ok
           THEN /\ df' = [df EXCEPT ![s] = Some(r.out.value)]
                /\ Goto(s, "select")
                /\ UNCHANGED raised
           ELSE /\ Fail(s, r.out)
                /\ UNCHANGED df
    /\ UNCHANGED <<file, passVars, callVars>>

\* lines 69-76
SelectCompany(s) ==
    /\ pc[s] = "select"
    /\ IF ColOrg \notin df[s][1].cols
       THEN /\ Fail(s, Raise("KeyError", 69))
            /\ UNCHANGED selected_company
       ELSE /\ \E c \in selectbox(companies(df[s][1])) :
                 selected_company' = [selected_company EXCEPT ![s] = c]
            /\ Goto(s, "logo")
            /\ UNCHANGED raised
    /\ UNCHANGED <<file, cache, df, logo, company_data, summary, funding_types,
                   funding_by_category, fig, details_df, callVars>>

\* lines 79-89
LoadLogo(s) ==
    /\ pc[s] = "logo"
    /\ LET r == load_company_logo(selected_company[s])
       IN  IF r.ok
           THEN /\ logo' = [logo EXCEPT ![s] = r.value]
                /\ Goto(s, "filter")
                /\ UNCHANGED raised
           ELSE /\ Fail(s, r)
                /\ UNCHANGED logo
    /\ UNCHANGED <<file, cache, df, selected_company, company_data, summary,
                   funding_types, funding_by_category, fig, details_df, callVars>>

\* lines 92-95
FilterCompany(s) ==
    /\ pc[s] = "filter"
    /\ company_data' =
         [company_data EXCEPT ![s] = SelectRows(df[s][1], selected_company[s])]
    /\ Goto(s, "summary")
    /\ UNCHANGED <<file, cache, raised, df, selected_company, logo, summary,
                   funding_types, funding_by_category, fig, details_df, callVars>>

\* lines 98-133
ShowSummary(s) ==
    /\ pc[s] = "summary"
    /\ IF ColMoney \notin company_data[s].cols
       THEN /\ Fail(s, Raise("KeyError", 98))
            /\ UNCHANGED <<summary, funding_by_category>>
       ELSE /\ summary' = [summary EXCEPT ![s] = Some(Summarize(company_data[s].rows))]
            /\ funding_by_category' =
                 [funding_by_category EXCEPT
                    ![s] = GroupBySum(company_data[s].rows)]
            /\ Goto(s, "charts")
            /\ UNCHANGED raised
    /\ UNCHANGED <<file, cache, df, selected_company, logo, company_data,
                   funding_types, fig, details_df, callVars>>

\* lines 137-224
ShowCharts(s) ==
    /\ pc[s] = "charts"
    /\ funding_types' = [funding_types EXCEPT ![s] = GroupBySum(company_data[s].rows)]
    /\ funding_by_category' =
         [funding_by_category EXCEPT ![s] = pivot_table(company_data[s].rows)]
    /\ fig' = [fig EXCEPT ![s] = bar_traces(pivot_table(company_data[s].rows))]
    /\ Goto(s, "details")
    /\ UNCHANGED <<file, cache, raised, df, selected_company, logo, company_data,
                   summary, details_df, callVars>>

\* the same lines, had the formatted columns been assigned to df itself
ShowDetailsInPlace(s) ==
    /\ pc[s] = "details"
    /\ IF ColLead \notin company_data[s].cols
       THEN /\ Fail(s, Raise("KeyError", 228))
            /\ UNCHANGED <<details_df, df>>
       ELSE /\ details_df' =
                 [details_df EXCEPT
                    ![s] = [cols |-> {ColDate, ColType, ColAmount, ColLead},
                            rows |-> format_details(company_data[s].rows)]]
            /\ df' = [df EXCEPT
                        ![s] = Some([cols |-> df[s][1].cols,
                                     rows |-> [i \in 1..Len(df[s][1].rows) |->
                                                 [df[s][1].rows[i] EXCEPT !.amount = 0]]])]
            /\ Goto(s, "done")
            /\ UNCHANGED raised
    /\ UNCHANGED <<file, cache, selected_company, logo, company_data, summary,
                   funding_types, funding_by_category, fig, callVars>>

\* lines 227-235
ShowDetails(s) ==
    /\ pc[s] = "details"
    /\ IF ColLead \notin company_data[s].cols
       THEN /\ Fail(s, Raise("KeyError", 228))
            /\ UNCHANGED details_df
       ELSE /\ details_df' =
                 [details_df EXCEPT
                    ![s] = [cols |-> {ColDate, ColType, ColAmount, ColLead},
                            rows |-> format_details(company_data[s].rows)]]
            /\ Goto(s, "done")
            /\ UNCHANGED raised
    /\ UNCHANGED <<file, cache, df, selected_company, logo, company_data, summary,
                   funding_types, funding_by_category, fig, callVars>>

EmptySeries == [index |-> {}, values |-> <<>>]
EmptyFrame == [cols |-> {}, rows |-> <<>>]

\* a widget interaction or a reload of the page: the script runs again from
\* the top in a fresh namespace
Rerun(s) ==
    /\ pc[s] \in {"done", "raised"}
    /\ Goto(s, "load")
    /\ raised' = [raised EXCEPT ![s] = NoException]
    /\ df' = [df EXCEPT ![s] = None]
    /\ selected_company' = [selected_company EXCEPT ![s] = None]
    /\ logo' = [logo EXCEPT ![s] = None]
    /\ company_data' = [company_data EXCEPT ![s] = EmptyFrame]
    /\ summary' = [summary EXCEPT ![s] = None]
    /\ funding_types' = [funding_types EXCEPT ![s] = EmptySeries]
    /\ funding_by_category' = [funding_by_category EXCEPT ![s] = EmptySeries]
    /\ fig' = [fig EXCEPT ![s] = <<>>]
    /\ details_df' = [details_df EXCEPT ![s] = EmptyFrame]
    /\ UNCHANGED <<file, cache, callVars>>

\* the CSV is replaced on disk while the process runs
ModifyFile ==
    /\ \E f \in SharedFiles \ {file} : file' = f
    /\ UNCHANGED <<cache, pc, raised, df, passVars, callVars>>

\* "Clear cache" of the Streamlit menu
ClearCache ==
    /\ cache # None
    /\ cache' = None
    /\ UNCHANGED <<file, pc, raised, df, passVars, callVars>>

Pass(s) ==
    \/ LoadData(s)
    \/ SelectCompany(s)
    \/ LoadLogo(s)
    \/ FilterCompany(s)
    \/ ShowSummary(s)
    \/ ShowCharts(s)
    \/ ShowDetails(s)
    \/ Rerun(s)

PassInit ==
    /\ cache = None
    /\ raised = [s \in Sessions |-> NoException]
    /\ df = [s \in Sessions |-> None]
    /\ selected_company = [s \in Sessions |-> None]
    /\ logo = [s \in Sessions |-> None]
    /\ company_data = [s \in Sessions |-> EmptyFrame]
    /\ summary = [s \in Sessions |-> None]
    /\ funding_types = [s \in Sessions |-> EmptySeries]
    /\ funding_by_category = [s \in Sessions |-> EmptySeries]
    /\ fig = [s \in Sessions |-> <<>>]
    /\ details_df = [s \in Sessions |-> EmptyFrame]

NoCall ==
    /\ funding_type = <<>>
    /\ equity_only = "No"
    /\ category = NotCalled

\* One session over one file.
Init ==
    /\ file \in GoodFiles \cup BrokenFiles
    /\ pc = [s \in Sessions |-> IF s = 1 THEN "load" ELSE "closed"]
    /\ PassInit
    /\ NoCall

Next == Pass(1)

Spec == Init /\ [][Next]_vars

\* Several sessions of one process, a file that is rewritten, a cache that is
\* cleared.
InitShared ==
    /\ file \in SharedFiles
    /\ pc = [s \in Sessions |-> "closed"]
    /\ PassInit
    /\ NoCall

NextShared ==
    \/ \E s \in Sessions : OpenSession(s)
    \/ \E s \in Sessions : Pass(s)
    \/ ModifyFile
    \/ ClearCache

SpecShared == InitShared /\ [][NextShared]_vars

-----------------------------------------------------------------------------
(* Direct calls of categorize_funding *)

Fragments ==
    { StrGrant, StrDebt, StrSeries, StrVenture, StrEquity, StrAngel,
      <<" ">>, <<"s">>, <<"d", "e", "b", "t">> }

RECURSIVE Texts(_)
Texts(n) ==
    IF n = 0 THEN { <<>> }
    ELSE Texts(n - 1) \cup { t \o f : t \in Texts(n - 1), f \in Fragments }

Examples ==
    { StrDebtFinancing, StrSeriesA, StrDebtEquityRound, StrDebtGrant, StrPostIPODebt }

InitCall ==
    /\ funding_type \in Texts(MaxFragments) \cup Examples
    /\ equity_only \in { "Yes", "No", "yes" }
    /\ category = NotCalled
    /\ file = [cols |-> RequiredColumns, rows |-> <<>>]
    /\ pc = [s \in Sessions |-> "closed"]
    /\ PassInit

Categorize ==
    /\ category = NotCalled
    /\ category' = categorize_funding(funding_type, equity_only)
    /\ UNCHANGED <<file, cache, pc, raised, df, passVars, funding_type, equity_only>>

NextCall == Categorize

SpecCall == InitCall /\ [][NextCall]_vars

-----------------------------------------------------------------------------
(* Properties.  Under Spec the file never changes, so what a pass shows is   *)
(* compared with the rows of the file itself, summed over sets of row        *)
(* numbers rather than by the operators of the pass.                         *)

Categories == {"Equity", "Debt", "Grant", "Other"}

Loaded(s) == df[s] # None
Summarized(s) == summary[s] # None
Charted(s) == pc[s] \in {"details", "done"} \/ (pc[s] = "raised" /\ raised[s].line = 228)

AmountOf(i) == IF file.rows[i].amount = NaN THEN 0 ELSE file.rows[i].amount
CategoryOf(i) == categorize_funding(file.rows[i].ft, file.rows[i].eo)
DateOf(i) == file.rows[i].date.text

\* the row numbers of the file that belong to the selected company
SourceRows(s) ==
    { i \in 1..Len(file.rows) :
        selected_company[s] # None /\ file.rows[i].org = selected_company[s][1] }

RECURSIVE SumOver(_)
SumOver(I) ==
    IF I = {} THEN 0
    ELSE LET i == CHOOSE x \in I : TRUE
         IN  AmountOf(i) + SumOver(I \ {i})

\* C1: categorize_funding returns Grant iff the type is exactly "Grant"; else
\* Debt iff the type contains "Debt"; else Equity iff equity_only is "Yes" or
\* the type contains "Series", "Venture" or "Equity"; else Other.  In
\* particular "Debt Equity Round" and "Debt Grant" are Debt, ("Angel", "Yes")
\* is Equity and ("Angel", "No") is Other.
C1_Precedence ==
    category # NotCalled =>
        LET isGrant == funding_type = StrGrant
            isDebt == Contains(funding_type, StrDebt)
            isEquity == \/ equity_only = "Yes"
                        \/ Contains(funding_type, StrSeries)
                        \/ Contains(funding_type, StrVenture)
                        \/ Contains(funding_type, StrEquity)
        IN  /\ category \in Categories
            /\ category = "Grant" <=> isGrant
            /\ category = "Debt" <=> (~isGrant /\ isDebt)
            /\ category = "Equity" <=> (~isGrant /\ ~isDebt /\ isEquity)
            /\ category = "Other" <=> (~isGrant /\ ~isDebt /\ ~isEquity)
            /\ funding_type = StrDebtEquityRound => category = "Debt"
            /\ funding_type = StrDebtGrant => category = "Debt"
            /\ (funding_type = StrAngel /\ equity_only = "Yes") => category = "Equity"
            /\ (funding_type = StrAngel /\ equity_only = "No") => category = "Other"

C1_Witness ==
    /\ funding_type = StrDebtEquityRound
    /\ equity_only = "Yes"
    /\ category = "Debt"

C3_ExactQuotient ==
    \A s \in Sessions :
        Summarized(s) =>
            LET sm == summary[s][1]
            IN  /\ sm.debt_to_equity = NotAvailable <=> sm.equity_funding = 0
                /\ sm.equity_funding # 0 =>
                      sm.debt_to_equity.v * sm.equity_funding = 100 * sm.debt_funding

\* C3 amended: the ratio is "N/A" iff the Equity total is 0, whatever the Debt
\* total; otherwise it is the text of debt_total / equity_total rounded to two
\* decimals (within half a hundredth of the quotient).  It is never a zero
\* standing in for "N/A".
C3_RoundedQuotient ==
    \A s \in Sessions :
        Summarized(s) =>
            LET sm == summary[s][1]
                e == sm.equity_funding
                d == sm.debt_funding
                err == 100 * d - sm.debt_to_equity.v * e
            IN  /\ sm.debt_to_equity = NotAvailable <=> e = 0
                /\ e = SumOver({ i \in SourceRows(s) : CategoryOf(i) = "Equity" })
                /\ e # 0 =>
                      /\ sm.debt_to_equity.fmt = ".2f"
                      /\ 2 * err <= e
                      /\ 2 * err >= 0 - e

C3_Witness ==
    \E s \in Sessions :
        /\ Summarized(s)
        /\ summary[s][1].equity_funding = 3
        /\ summary[s][1].debt_funding = 1
        /\ summary[s][1].debt_to_equity = Formatted(".2f", 33)

C3_WitnessNotAvailable ==
    \E s \in Sessions :
        /\ Summarized(s)
        /\ summary[s][1].equity_funding = 0
        /\ summary[s][1].debt_funding > 0
        /\ summary[s][1].debt_to_equity = NotAvailable

\* C4: when the selected company has no row in a well-formed file (the empty
\* dataset included) the pass does not raise, and it ends with total_raised 0,
\* num_rounds 0, latest round and date "N/A", debt-to-equity "N/A" and the two
\* percentages at their zero fallback.
C4_EmptySelectionCompletes ==
    \A s \in Sessions :
        ( /\ file.cols = RequiredColumns
          /\ \A i \in 1..Len(file.rows) : Parseable(file.rows[i].date)
          /\ SourceRows(s) = {}
          /\ pc[s] # "closed" ) =>
            /\ pc[s] # "raised"
            /\ Summarized(s) =>
                 /\ summary[s][1].total_raised = 0
                 /\ summary[s][1].num_rounds = 0
                 /\ summary[s][1].latest_round = StrNA
                 /\ summary[s][1].latest_date = NotAvailable
                 /\ summary[s][1].debt_to_equity = NotAvailable
                 /\ summary[s][1].debt_to_total = Formatted("int", 0)
                 /\ summary[s][1].equity_percentage = Formatted("0%", 0)

\* C5: for a company with at least one row the latest round type and date shown
\* are those of a row of that company whose date is the greatest of the
\* company's dates; they are "N/A" only when the company has no row.
C5_LatestRound ==
    \A s \in Sessions :
        Summarized(s) =>
            LET sm == summary[s][1]
                I == SourceRows(s)
            IN  /\ I # {} =>
                     \E i \in I :
                        /\ \A j \in I : DateOf(j) <= DateOf(i)
                        /\ sm.latest_round = file.rows[i].ft
                        /\ sm.latest_date = Formatted("%B %d, %Y", DateOf(i))
                /\ (sm.latest_round = StrNA \/ sm.latest_date = NotAvailable) => I = {}

C5_Witness ==
    \E s \in Sessions :
        /\ Summarized(s)
        /\ Len(file.rows) = 2
        /\ SourceRows(s) = {1, 2}
        /\ DateOf(1) > DateOf(2)
        /\ file.rows[1].ft # file.rows[2].ft
        /\ summary[s][1].latest_round = file.rows[1].ft

\* the frame is the rows of the file, each once, with its date parsed
IsPermutationOfFile(frame) ==
    /\ Len(frame.rows) = Len(file.rows)
    /\ \A i \in 1..Len(file.rows) :
          \E k \in 1..Len(frame.rows) :
             /\ frame.rows[k].idx = i
             /\ frame.rows[k].org = file.rows[i].org
             /\ frame.rows[k].date = DateOf(i)
             /\ frame.rows[k].ft = file.rows[i].ft
             /\ frame.rows[k].eo = file.rows[i].eo
             /\ frame.rows[k].amount = file.rows[i].amount
             /\ frame.rows[k].lead = file.rows[i].lead

\* C6 as stated: what load_data returns is a permutation of the rows of the
\* file in ascending date order, rows of equal date in the order of the file.
C6_StableSorted ==
    \A s \in Sessions :
        Loaded(s) =>
            /\ IsPermutationOfFile(df[s][1])
            /\ \A k, l \in 1..Len(df[s][1].rows) :
                  k < l =>
                     \/ df[s][1].rows[k].date < df[s][1].rows[l].date
                     \/ /\ df[s][1].rows[k].date = df[s][1].rows[l].date
                        /\ df[s][1].rows[k].idx < df[s][1].rows[l].idx

\* C6 amended: what load_data returns is a permutation of the rows of the file
\* in ascending date order; the order of rows of equal date is not fixed.
C6_SortedPermutation ==
    \A s \in Sessions :
        Loaded(s) =>
            /\ IsPermutationOfFile(df[s][1])
            /\ \A k, l \in 1..Len(df[s][1].rows) :
                  k < l => df[s][1].rows[k].date <= df[s][1].rows[l].date

C6_Witness ==
    \E s \in Sessions :
        /\ Loaded(s)
        /\ Len(file.rows) = 2
        /\ DateOf(1) > DateOf(2)
        /\ df[s][1].rows[1].idx = 2
        /\ df[s][1].rows[2].idx = 1

HasBadDate == \E i \in 1..Len(file.rows) : ~Parseable(file.rows[i].date)
Lacks(c) == c \notin file.cols
LoadLines == 28..44

\* the load of this session failed and left nothing behind
FailedInLoad(s) ==
    /\ df[s] = None
    /\ cache = None
    /\ pc[s] \in {"closed", "load", "raised"}
    /\ pc[s] = "raised" => raised[s].line \in LoadLines

\* C7 as stated: a file that lacks any required column or holds an unparseable
\* date fails in the load itself, which returns no dataset, and no later step
\* runs on it.
C7_FailsInLoad ==
    \A s \in Sessions :
        ((\E c \in RequiredColumns : Lacks(c)) \/ HasBadDate) => FailedInLoad(s)

\* C7 amended: a file that lacks Announced Date or holds an unparseable date,
\* or that has a row and lacks Funding Type or Equity Only Funding, fails in
\* the load itself, which returns and caches nothing, and no later step runs.
\* A file with a row and parseable dates that lacks only Organization Name,
\* Money Raised (in USD) or Lead Investors is loaded and returned; the pass
\* fails later, at the first use of the missing column: line 69 before any
\* selection, line 98 before any total, line 228 after the charts.
C7_FailsAtFirstUse ==
    \A s \in Sessions :
        /\ ( \/ Lacks(ColDate)
             \/ HasBadDate
             \/ (file.rows # <<>> /\ (Lacks(ColType) \/ Lacks(ColEquityOnly))) )
              => FailedInLoad(s)
        /\ (file.rows # <<>> /\ ~HasBadDate /\ Lacks(ColOrg)) =>
              /\ pc[s] \in {"closed", "load", "select", "raised"}
              /\ pc[s] \in {"select", "raised"} => Loaded(s)
              /\ pc[s] = "raised" => raised[s].line = 69
              /\ selected_company[s] = None
        /\ (file.rows # <<>> /\ ~HasBadDate /\ Lacks(ColMoney)) =>
              /\ pc[s] \notin {"charts", "details", "done"}
              /\ pc[s] = "raised" => (raised[s].line = 98 /\ Loaded(s))
              /\ ~Summarized(s)
        /\ (file.rows # <<>> /\ ~HasBadDate /\ Lacks(ColLead)) =>
              /\ pc[s] # "done"
              /\ pc[s] = "raised" => (raised[s].line = 228 /\ Summarized(s))
              /\ details_df[s] = EmptyFrame

C7_Witness ==
    \E s \in Sessions :
        /\ Lacks(ColMoney)
        /\ file.rows # <<>>
        /\ Loaded(s)
        /\ cache = df[s]
        /\ selected_company[s] # None
        /\ pc[s] = "raised"
        /\ raised[s] = [exc |-> "KeyError", line |-> 98]

C7_WitnessLoad ==
    \E s \in Sessions :
        /\ HasBadDate
        /\ file.cols = RequiredColumns
        /\ pc[s] = "raised"
        /\ raised[s] = [exc |-> "DateParseError", line |-> 33]

\* a step of session s that executes line 59 and gets a frame
Loads(s) == pc[s] = "load" /\ pc'[s] = "select"

\* C8 as stated: the cache is keyed by the state of the file: a load returns
\* the cached sequence when the file is as it was when that sequence was
\* derived, and the sequence derived from the file as it is now otherwise.
C8_KeyedByFileState ==
    [][\A s \in Sessions :
          Loads(s) =>
             /\ Return(df'[s][1]) \in load_data(file)
             /\ (cache # None /\ Return(cache[1]) \in load_data(file))
                    => df'[s] = cache]_vars

\* C8 amended: the cache is keyed by the function alone.  A load that finds a
\* cached sequence returns exactly that sequence and leaves it cached, whether
\* or not the file has changed since; only a load that finds the cache empty
\* (the first of the process, or the first after the cache was cleared)
\* returns, and caches, a sequence derived from the file as it is now.
C8_KeyedByFunctionOnly ==
    [][\A s \in Sessions :
          Loads(s) =>
             IF cache # None
             THEN df'[s] = cache /\ cache' = cache
             ELSE Return(df'[s][1]) \in load_data(file) /\ cache' = df'[s]]_vars

\* two sessions hold the same loaded sequence, which is not one the file as it
\* is now yields
C8_Witness ==
    \E s, t \in Sessions :
        /\ s # t
        /\ pc[s] = "done"
        /\ pc[t] = "select"
        /\ df[t] = cache
        /\ df[s] = df[t]
        /\ Return(df[t][1]) \notin load_data(file)

\* C9: once load_data has returned, no step of a pass of any session
\* (selection, logo, filter, summary, charts, details table) changes the loaded
\* dataset: the frame of every session and the cached frame stay as they are.
C9_LoadedDataNeverMutated ==
    [][\A s \in Sessions :
          (pc[s] \in {"select", "logo", "filter", "summary", "charts", "details"}
             /\ pc'[s] # pc[s])
              => /\ cache' = cache
                 /\ \A t \in Sessions : df'[t] = df[t]]_vars

C9_Witness ==
    \E s, t \in Sessions :
        /\ s # t
        /\ pc[s] = "done"
        /\ pc[t] = "done"
        /\ details_df[s].rows # <<>>
        /\ details_df[s].rows[1].amount.fmt = "$,.0f"
        /\ df[s] = cache
        /\ df[t] = cache
        /\ \A i \in 1..Len(df[s][1].rows) : df[s][1].rows[i].amount \in Amounts

\* C10: the time series of the selected company has one entry per date that
\* occurs among the company's rows and no other; for such a date and a category
\* its value is the sum of the company's amounts of that category on that date,
\* 0 when there is none.  A category without any row of the company has no
\* column and no bar, that is, nothing but zeros.
C10_TimeSeries ==
    \A s \in Sessions :
        Charted(s) =>
            LET pivot == funding_by_category[s]
                I == SourceRows(s)
                on(d, c) == { i \in I : DateOf(i) = d /\ CategoryOf(i) = c }
                drawn == { fig[s][k].name : k \in 1..Len(fig[s]) }
            IN  /\ pivot.index = { DateOf(i) : i \in I }
                /\ pivot.columns = { CategoryOf(i) : i \in I }
                /\ \A d \in pivot.index : \A c \in Categories :
                      IF c \in pivot.columns
                      THEN pivot.values[d][c] = SumOver(on(d, c))
                      ELSE SumOver(on(d, c)) = 0
                /\ drawn = pivot.columns \cap {"Equity", "Debt", "Grant"}
                /\ \A k, l \in 1..Len(fig[s]) : fig[s][k].name = fig[s][l].name => k = l
                /\ \A k \in 1..Len(fig[s]) :
                      /\ fig[s][k].x = pivot.index
                      /\ \A d \in pivot.index :
                            fig[s][k].y[d] = SumOver(on(d, fig[s][k].name))

C10_Witness ==
    \E s \in Sessions :
        /\ Charted(s)
        /\ funding_by_category[s].index = {1, 2}
        /\ funding_by_category[s].columns = {"Equity", "Debt"}
        /\ funding_by_category[s].values[1]["Debt"] = 0
        /\ funding_by_category[s].values[1]["Equity"] = 3
        /\ funding_by_category[s].values[2]["Debt"] = 1
        /\ Len(fig[s]) = 2

C10_WitnessOtherDate ==
    \E s \in Sessions :
        /\ Charted(s)
        /\ Len(file.rows) = 2
        /\ funding_by_category[s].index = {1}
        /\ \E i \in 1..2 : DateOf(i) = 2

====
